---- MODULE Spec2Model ----
(***************************************************************************)
(* Directory-based cache coherence simulation of a 4-node cc-NUMA machine  *)
(* (src/Cache Coherence - NUMA/main.cpp).  Every bit array of the program  *)
(* is a function from its C++ index range to BOOLEAN, so that the index    *)
(* arithmetic of the code (i+4, i+5, 2+nodeIndex, ...) is kept as written. *)
(* The second program of the repository, the Booth multiplier of           *)
(* src/Booths_16bit.cpp, is a separate process with variables of its own.  *)
(***************************************************************************)
EXTENDS Integers, Naturals, Sequences, FiniteSets, TLC

VARIABLES systemNodes, clockCount, pc, fetched, record, instr, access, lastStored

\* booths(): its registers, the loop counters, the position in the loop body
\* and the two numbers the run was started with
VARIABLES MD, MQ, AC, mqv, cycleCounter, enteredLoop, iteration, bpc, operands

numaVars == <<systemNodes, clockCount, pc, fetched, record, instr, access, lastStored>>

boothVars == <<MD, MQ, AC, mqv, cycleCounter, enteredLoop, iteration, bpc, operands>>

vars == <<numaVars, boothVars>>

(* ------------------------------ bounds --------------------------------- *)

\* length of the longest instruction stream explored
MaxInstr == 4

(* ------------------------- program constants --------------------------- *)

NumNodes == 4
NumCpus == 2
NumRegs == 2
NumLines == 4
NumWords == 16
WordBits == 32
LineBits == 37
DirBits == 6
TagBits == 4

LocalHitCost == 1
SiblingHitCost == 30
HomeFetchCost == 100
DirtyMigrationCost == 135
WriteHitCost == 1
WriteMissCost == 100

LoadOp == "100011"
StoreOp == "101011"

NodeIds == 0..(NumNodes - 1)
CpuIds == 0..(NumCpus - 1)
WordIdx == 0..(WordBits - 1)
LineIdx == 0..(LineBits - 1)

(* --------------------------- bit-vector utilities ---------------------- *)

\* decimalValue /= 2, k times
RECURSIVE halve(_, _)
halve(decimalValue, k) ==
    IF k = 0 THEN decimalValue ELSE halve(decimalValue \div 2, k - 1)

\* int -> bool[32], most significant bit at index 0
decimalTo32BitBinary(decimalValue) ==
    [i \in WordIdx |-> halve(decimalValue, (WordBits - 1) - i) % 2 = 1]

\* the 4-bit tag of a word address, tag[0] the most significant bit
tagOf(memoryAddress) ==
    [i \in 0..(TagBits - 1) |->
        halve(memoryAddress \div 4, (TagBits - 1) - i) % 2 = 1]

\* valid bit set and the four tag bits equal
lineMatches(line, tag) ==
    /\ line[0]
    /\ line[1] = tag[0]
    /\ line[2] = tag[1]
    /\ line[3] = tag[2]
    /\ line[4] = tag[3]

\* the 32 data bits of a cache line (indices 5..36)
lineData(line) == [i \in WordIdx |-> line[i + 5]]

\* a line with the given valid bit, tag and data
mkLine(valid, tag, data) ==
    [i \in LineIdx |->
        IF i = 0 THEN valid
        ELSE IF i <= 4 THEN tag[i - 1]
        ELSE data[i - 5]]

(* -------------------------------- Node --------------------------------- *)

\* storage that initializeSystem never writes holds whatever "new Node"
\* returned: one fill value for all of it, either value possible
UninitFills == BOOLEAN

\* what a read through an out-of-range index (caches[-1], systemNodes[-1])
\* may deliver: any bits; two representative words
UndefWords == {[i \in WordIdx |-> FALSE], [i \in WordIdx |-> TRUE]}

\* struct Node after initializeSystem: memory[j] = i*16 + j + 5, the rest
\* untouched
newNode(i, fill) ==
    [registers |-> [c \in CpuIds |-> [r \in 0..(NumRegs - 1) |->
                        [b \in WordIdx |-> fill]]],
     caches    |-> [c \in CpuIds |-> [k \in 0..(NumLines - 1) |->
                        [b \in LineIdx |-> fill]]],
     memory    |-> [j \in 0..(NumWords - 1) |->
                        decimalTo32BitBinary(i * NumWords + j + 5)],
     directory |-> [j \in 0..(NumWords - 1) |->
                        [b \in 0..(DirBits - 1) |-> fill]]]

initializeSystem(fill) == [i \in NodeIds |-> newNode(i, fill)]

(* ------------------------------ write-back ----------------------------- *)

\* the loop of writeBack that turns the tag bits caches[..][1..4] into a number
RECURSIVE tagToNumber(_, _, _)
tagToNumber(line, i, memoryAddress) ==
    IF i >= 5 THEN memoryAddress
    ELSE tagToNumber(line, i + 1,
                     IF line[i] THEN memoryAddress * 2 + 1 ELSE memoryAddress)

\* the word address writeBack computes for the line in a slot
writeBackAddress(line, cacheIndex) == tagToNumber(line, 1, 0) * 4 + cacheIndex

\* writeBack(nodeIndex, cpuIndex, cacheIndex): the nodes afterwards
writeBack(nodes, nodeIndex, cpuIndex, cacheIndex) ==
    LET line == nodes[nodeIndex].caches[cpuIndex][cacheIndex]
        memoryAddress == writeBackAddress(line, cacheIndex)
        homeNode == memoryAddress \div 16
        localMemAddress == memoryAddress % 16
    IN  IF /\ line[0]
           /\ nodes[homeNode].directory[localMemAddress][0]
           /\ nodes[homeNode].directory[localMemAddress][1]
        THEN [nodes EXCEPT ![homeNode].memory[localMemAddress] = lineData(line)]
        ELSE nodes

(* --------------------------------- load -------------------------------- *)

otherCpuOf(cpuIndex) == (cpuIndex + 1) % 2

\* loadLocalHit after a write-back of the line that is hit
loadLocalHitWritingBack(nodes, nodeIndex, cpuIndex, memoryAddress, reg) ==
    LET cacheIndex == memoryAddress % 4
        saved == writeBack(nodes, nodeIndex, cpuIndex, cacheIndex)
    IN  [saved EXCEPT ![nodeIndex].registers[cpuIndex][reg] =
            [i \in WordIdx |-> nodes[nodeIndex].caches[cpuIndex][cacheIndex][i + 4]]]

\* case 1: registers[..][i] = caches[..][i+4]
loadLocalHit(nodes, nodeIndex, cpuIndex, memoryAddress, reg) ==
    LET line == nodes[nodeIndex].caches[cpuIndex][memoryAddress % 4]
    IN  [nodes EXCEPT ![nodeIndex].registers[cpuIndex][reg] =
            [i \in WordIdx |-> line[i + 4]]]

\* loadSiblingHit with the register read one bit early (i+4 for i+5)
loadSiblingHitShifted(nodes, nodeIndex, cpuIndex, memoryAddress, reg) ==
    LET cacheIndex == memoryAddress % 4
        sister == nodes[nodeIndex].caches[otherCpuOf(cpuIndex)][cacheIndex]
        mine == nodes[nodeIndex].caches[cpuIndex][cacheIndex]
    IN  [nodes EXCEPT
            ![nodeIndex].registers[cpuIndex][reg] =
                [i \in WordIdx |-> sister[i + 4]],
            ![nodeIndex].caches[cpuIndex][cacheIndex] =
                [i \in LineIdx |-> IF i = 4 THEN mine[4] ELSE sister[i]]]

\* case 2: data bits 5..36 and bits 0..3 are copied from the sister line,
\* bit 4 of the local line is left as it was
loadSiblingHit(nodes, nodeIndex, cpuIndex, memoryAddress, reg) ==
    LET cacheIndex == memoryAddress % 4
        sister == nodes[nodeIndex].caches[otherCpuOf(cpuIndex)][cacheIndex]
        mine == nodes[nodeIndex].caches[cpuIndex][cacheIndex]
    IN  [nodes EXCEPT
            ![nodeIndex].registers[cpuIndex][reg] = lineData(sister),
            ![nodeIndex].caches[cpuIndex][cacheIndex] =
                [i \in LineIdx |-> IF i = 4 THEN mine[4] ELSE sister[i]]]

\* loadHomeFetch with the presence bit of homeNode set, as case 4 does
loadHomeFetchHomeBit(nodes, nodeIndex, cpuIndex, memoryAddress, reg) ==
    LET cacheIndex == memoryAddress % 4
        homeNode == memoryAddress \div 16
        localMemIndex == memoryAddress % 16
        word == nodes[homeNode].memory[localMemIndex]
    IN  [nodes EXCEPT
            ![nodeIndex].registers[cpuIndex][reg] = word,
            ![nodeIndex].caches[cpuIndex][cacheIndex] =
                mkLine(TRUE, tagOf(memoryAddress), word),
            ![homeNode].directory[localMemIndex] =
                [@ EXCEPT ![0] = FALSE, ![1] = TRUE, ![2 + homeNode] = TRUE]]

\* case 3: copy from home memory, directory shared, presence bit of nodeIndex
loadHomeFetch(nodes, nodeIndex, cpuIndex, memoryAddress, reg) ==
    LET cacheIndex == memoryAddress % 4
        homeNode == memoryAddress \div 16
        localMemIndex == memoryAddress % 16
        word == nodes[homeNode].memory[localMemIndex]
    IN  [nodes EXCEPT
            ![nodeIndex].registers[cpuIndex][reg] = word,
            ![nodeIndex].caches[cpuIndex][cacheIndex] =
                mkLine(TRUE, tagOf(memoryAddress), word),
            ![homeNode].directory[localMemIndex] =
                [@ EXCEPT ![0] = FALSE, ![1] = TRUE, ![2 + nodeIndex] = TRUE]]

\* case 4: the first presence bit set, or -1
dirtyNodeOf(nodes, memoryAddress) ==
    LET entry == nodes[memoryAddress \div 16].directory[memoryAddress % 16]
        holders == {i \in NodeIds : entry[2 + i]}
    IN  IF holders = {} THEN -1
        ELSE CHOOSE i \in holders : \A j \in holders : i <= j

\* case 4: the cpu of dirtyNode whose line matches, or -1
dirtyCpuOf(nodes, dirtyNode, memoryAddress) ==
    LET cacheIndex == memoryAddress % 4
        tag == tagOf(memoryAddress)
    IN  IF lineMatches(nodes[dirtyNode].caches[0][cacheIndex], tag) THEN 0
        ELSE IF lineMatches(nodes[dirtyNode].caches[1][cacheIndex], tag) THEN 1
        ELSE -1

\* case 4: the words the read of caches[dirtyCPU][cacheIndex][i+5] can deliver
dirtyWords(nodes, memoryAddress) ==
    LET dirtyNode == dirtyNodeOf(nodes, memoryAddress)
    IN  IF dirtyNode < 0 THEN UndefWords
        ELSE LET dirtyCPU == dirtyCpuOf(nodes, dirtyNode, memoryAddress)
             IN  IF dirtyCPU < 0 THEN UndefWords
                 ELSE {lineData(nodes[dirtyNode].caches[dirtyCPU][memoryAddress % 4])}

\* case 4: the value goes to home memory, the register of the requester and
\* the line caches[cpuIndex][cacheIndex] of systemNodes[homeNode]; directory
\* shared, presence bit of homeNode set
loadDirtyMigration(nodes, nodeIndex, cpuIndex, memoryAddress, reg, word) ==
    LET cacheIndex == memoryAddress % 4
        homeNode == memoryAddress \div 16
        localMemIndex == memoryAddress % 16
    IN  [nodes EXCEPT
            ![homeNode].caches[cpuIndex][cacheIndex] =
                mkLine(TRUE, tagOf(memoryAddress), word),
            ![nodeIndex].registers[cpuIndex][reg] = word,
            ![homeNode].memory[localMemIndex] = word,
            ![homeNode].directory[localMemIndex] =
                [@ EXCEPT ![0] = FALSE, ![1] = TRUE, ![2 + homeNode] = TRUE]]

(* --------------------------------- store ------------------------------- *)

\* invalidateCopies that also clears the presence bits of the word
invalidateCopiesAndPresence(nodes, memoryAddress) ==
    LET cacheIndex == memoryAddress % 4
        tag == tagOf(memoryAddress)
        homeNode == memoryAddress \div 16
        entry == nodes[homeNode].directory[memoryAddress % 16]
        cleared ==
            [i \in NodeIds |->
                IF entry[i + 2]
                THEN [nodes[i] EXCEPT !.caches =
                        [j \in CpuIds |->
                            IF lineMatches(nodes[i].caches[j][cacheIndex], tag)
                            THEN [nodes[i].caches[j] EXCEPT ![cacheIndex][0] = FALSE]
                            ELSE nodes[i].caches[j]]]
                ELSE nodes[i]]
    IN  [cleared EXCEPT ![homeNode].directory[memoryAddress % 16] =
            [b \in 0..(DirBits - 1) |-> IF b >= 2 THEN FALSE ELSE entry[b]]]

\* the invalidation loop: in every node whose presence bit is set, every
\* valid line at cacheIndex with the tag loses its valid bit
invalidateCopies(nodes, memoryAddress) ==
    LET cacheIndex == memoryAddress % 4
        tag == tagOf(memoryAddress)
        entry == nodes[memoryAddress \div 16].directory[memoryAddress % 16]
    IN  [i \in NodeIds |->
            IF entry[i + 2]
            THEN [nodes[i] EXCEPT !.caches =
                    [j \in CpuIds |->
                        IF lineMatches(nodes[i].caches[j][cacheIndex], tag)
                        THEN [nodes[i].caches[j] EXCEPT ![cacheIndex][0] = FALSE]
                        ELSE nodes[i].caches[j]]]
            ELSE nodes[i]]

\* case 1 of writeToMem: directory dirty, copies invalidated, local line
\* valid with the tag and the register's bits
storeWriteHit(nodes, nodeIndex, cpuIndex, memoryAddress, reg) ==
    LET cacheIndex == memoryAddress % 4
        homeNode == memoryAddress \div 16
        localMemIndex == memoryAddress % 16
        dirty == [nodes EXCEPT ![homeNode].directory[localMemIndex] =
                    [@ EXCEPT ![0] = TRUE, ![1] = TRUE]]
        cleared == invalidateCopies(dirty, memoryAddress)
    IN  [cleared EXCEPT ![nodeIndex].caches[cpuIndex][cacheIndex] =
            mkLine(TRUE, tagOf(memoryAddress),
                   nodes[nodeIndex].registers[cpuIndex][reg])]

\* storeWriteMiss that also enters the writer's node in the presence set
storeWriteMissAllocating(nodes, nodeIndex, cpuIndex, memoryAddress, reg) ==
    LET homeNode == memoryAddress \div 16
        localMemIndex == memoryAddress % 16
        written == [nodes EXCEPT ![homeNode].memory[localMemIndex] =
                        nodes[nodeIndex].registers[cpuIndex][reg]]
        cleared == invalidateCopies(written, memoryAddress)
        entry == cleared[homeNode].directory[localMemIndex]
    IN  [cleared EXCEPT ![homeNode].directory[localMemIndex] =
            [@ EXCEPT ![0] = FALSE, ![1] = entry[1], ![2 + nodeIndex] = TRUE]]

\* case 2 of writeToMem: home memory updated, copies invalidated, dirty
\* becomes shared
storeWriteMiss(nodes, nodeIndex, cpuIndex, memoryAddress, reg) ==
    LET homeNode == memoryAddress \div 16
        localMemIndex == memoryAddress % 16
        written == [nodes EXCEPT ![homeNode].memory[localMemIndex] =
                        nodes[nodeIndex].registers[cpuIndex][reg]]
        cleared == invalidateCopies(written, memoryAddress)
        entry == cleared[homeNode].directory[localMemIndex]
    IN  IF entry[0] /\ entry[1]
        THEN [cleared EXCEPT ![homeNode].directory[localMemIndex] =
                [@ EXCEPT ![0] = FALSE, ![1] = TRUE]]
        ELSE cleared

(* ------------------------- instruction pipeline ------------------------ *)

\* the fields of the instruction records a stream may hold: loads into $s1
\* (rt odd) and stores from $s1 or $s2 (rt even), issued by both processors
\* of node 0 and processor 0 of node 1
Requesters == {<<0, 0>>, <<0, 1>>, <<1, 0>>}
LoadRtValues == {17}
StoreRtValues == {17, 18}
OffsetValues == {0, 16}

\* word addresses 9 and 13 (tags 0010 and 0011, cache index 1)
RsValues == {9}

\* word addresses 1 and 5 (tags 0000 and 0001, cache index 1)
RsScenario == {1}

\* the characters of an unsigned field of the given width, first bit first
fieldChars(value, width) ==
    [i \in 1..width |-> IF halve(value, width - i) % 2 = 1 THEN "1" ELSE "0"]

LoadChars == <<"1", "0", "0", "0", "1", "1">>
StoreChars == <<"1", "0", "1", "0", "1", "1">>

\* a line of the stream, in the layout given above decode:
\* NNC: OOOOOOsssssttttttbbbbbbbbbbbbbbbb
recordLine(nodeIndex, cpuIndex, opChars, rs, rt, byteOffset) ==
    fieldChars(nodeIndex, 2) \o fieldChars(cpuIndex, 1) \o <<":", " ">>
        \o opChars \o fieldChars(rs, 5) \o fieldChars(rt, 5)
        \o fieldChars(byteOffset, 16)

RecordsWith(rsValues, offsets) ==
    {recordLine(q[1], q[2], LoadChars, rs, rt, off) :
        q \in Requesters, rs \in rsValues, rt \in LoadRtValues, off \in offsets}
    \cup
    {recordLine(q[1], q[2], StoreChars, rs, rt, off) :
        q \in Requesters, rs \in rsValues, rt \in StoreRtValues, off \in offsets}

RecordsOver(rsValues) == RecordsWith(rsValues, OffsetValues)

\* byte offsets that lead from rs = 9 to the word addresses 9, 13 and 73
OffsetsBeyond == {0, 16, 256}

\* binaryToDecimal: the characters read first bit first, "1" counting as one
RECURSIVE binaryToDecimalFrom(_, _, _)
binaryToDecimalFrom(binaryNumber, i, result) ==
    IF i > Len(binaryNumber) THEN result
    ELSE binaryToDecimalFrom(binaryNumber, i + 1,
            result * 2 + (IF binaryNumber[i] = "1" THEN 1 ELSE 0))

binaryToDecimal(binaryNumber) == binaryToDecimalFrom(binaryNumber, 1, 0)

\* line.substr(pos, count), positions counted from 0 as in the program
substr(text, pos, count) == SubSeq(text, pos + 1, pos + count)

\* the string a run of characters spells
RECURSIVE spelled(_)
spelled(chars) ==
    IF chars = <<>> THEN "" ELSE Head(chars) \o spelled(Tail(chars))

\* execute with the byte offset added as it is
executeByteOffset(nodeIndex, cpuIndex, opCode, rs, rt, byteOffset) ==
    [nodeIndex |-> nodeIndex, cpuIndex |-> cpuIndex, opCode |-> opCode,
     memoryAddress |-> rs + byteOffset, reg |-> (rt + 1) % 2]

\* execute: word offset, effective address and register selector
execute(nodeIndex, cpuIndex, opCode, rs, rt, byteOffset) ==
    LET wordOffset == byteOffset \div 4
    IN  [nodeIndex |-> nodeIndex, cpuIndex |-> cpuIndex, opCode |-> opCode,
         memoryAddress |-> rs + wordOffset, reg |-> (rt + 1) % 2]

\* decode: the fields of a line, handed to execute
decode(text) ==
    LET nodeIndex == (IF text[1] = "1" THEN 2 ELSE 0) + (IF text[2] = "1" THEN 1 ELSE 0)
        cpuIndex == IF text[3] = "1" THEN 1 ELSE 0
        opCode == spelled(substr(text, 5, 6))
        rs == binaryToDecimal(substr(text, 11, 5))
        rt == binaryToDecimal(substr(text, 16, 5))
        byteOffset == binaryToDecimal(substr(text, 21, 16))
    IN  execute(nodeIndex, cpuIndex, opCode, rs, rt, byteOffset)

\* no instruction executed yet
NoInstr ==
    [nodeIndex |-> 0, cpuIndex |-> 0, opCode |-> "", memoryAddress |-> 0, reg |-> 0]

\* what decode and execute hand to memoryAccess, for each line of a set
callsOf(records) == [text \in records |-> decode(text)]

\* the lines the streams are made of, each with its call
Calls == callsOf(RecordsOver(RsValues))
CallsScenario == callsOf(RecordsOver(RsScenario))
CallsBeyond == callsOf(RecordsWith(RsValues, OffsetsBeyond))

\* the tests memoryAccess and writeToMem make, on the nodes as they are when
\* each test is evaluated
isLocalHit(nodes, d) ==
    lineMatches(nodes[d.nodeIndex].caches[d.cpuIndex][d.memoryAddress % 4],
                tagOf(d.memoryAddress))

isSiblingHit(nodes, d) ==
    lineMatches(nodes[d.nodeIndex].caches[otherCpuOf(d.cpuIndex)][d.memoryAddress % 4],
                tagOf(d.memoryAddress))

\* isUncachedOrShared with the "01 is shared" disjunct left out
isUncachedOnly(nodes, d) ==
    LET entry == nodes[d.memoryAddress \div 16].directory[d.memoryAddress % 16]
    IN  entry[0] = FALSE /\ entry[1] = FALSE

isUncachedOrShared(nodes, d) ==
    LET entry == nodes[d.memoryAddress \div 16].directory[d.memoryAddress % 16]
    IN  \/ (entry[0] = FALSE /\ entry[1] = FALSE)
        \/ (entry[0] = FALSE /\ entry[1] = TRUE)

\* the nodes after the writeBack call that follows a local miss
\* systemNodes[homeNode] is one of the four nodes
homeInMachine(d) == (d.memoryAddress \div 16) \in NodeIds

evicted(nodes, d) ==
    writeBack(nodes, d.nodeIndex, d.cpuIndex, d.memoryAddress % 4)

\* one more record read and carried through decode, execute, memoryAccess
Retire(d, nodes, cost, label) ==
    /\ systemNodes' = nodes
    /\ lastStored' = IF d.opCode = StoreOp
                     THEN (d.memoryAddress :>
                               systemNodes[d.nodeIndex].registers[d.cpuIndex][d.reg])
                          @@ lastStored
                     ELSE lastStored
    /\ clockCount' = clockCount + cost
    /\ instr' = d
    /\ access' = label
    /\ fetched' = fetched + 1
    /\ pc' = "fetch"
    /\ UNCHANGED boothVars

\* getline delivers a record: the streams explored hold MaxInstr records
Fetching == pc = "fetch" /\ fetched < MaxInstr

\* the multiplier is not running
BoothIdle ==
    /\ MD = [b \in 0..15 |-> FALSE]
    /\ MQ = [b \in 0..15 |-> FALSE]
    /\ AC = [b \in 0..15 |-> FALSE]
    /\ mqv = FALSE
    /\ cycleCounter = [b \in 0..3 |-> TRUE]
    /\ enteredLoop = FALSE
    /\ iteration = 0
    /\ bpc = "idle"
    /\ operands = <<0, 0>>

InitWith(fills) ==
    /\ BoothIdle
    /\ \E fill \in fills : systemNodes = initializeSystem(fill)
    /\ clockCount = 0
    /\ pc = "fetch"
    /\ fetched = 0
    /\ record = <<>>
    /\ lastStored = <<>>
    /\ instr = NoInstr
    /\ access = "none"

Init == InitWith(UninitFills)

\* the run in which the storage "new Node" returned was all zero
InitZero == InitWith({FALSE})

LoadLocalHit(C) ==
    /\ Fetching
    /\ \E text \in DOMAIN C : LET d == C[text] IN
        /\ record' = text
        /\ d.opCode = LoadOp
        /\ isLocalHit(systemNodes, d)
        /\ Retire(d, loadLocalHit(systemNodes, d.nodeIndex, d.cpuIndex,
                                  d.memoryAddress, d.reg),
                  LocalHitCost, "LoadLocalHit")

LoadSiblingHit(C) ==
    /\ Fetching
    /\ \E text \in DOMAIN C : LET d == C[text] IN
        /\ record' = text
        /\ d.opCode = LoadOp
        /\ ~isLocalHit(systemNodes, d)
        /\ LET nodes == evicted(systemNodes, d)
           IN  /\ isSiblingHit(nodes, d)
               /\ Retire(d, loadSiblingHit(nodes, d.nodeIndex, d.cpuIndex,
                                           d.memoryAddress, d.reg),
                         SiblingHitCost, "LoadSiblingHit")

LoadHomeFetch(C) ==
    /\ Fetching
    /\ \E text \in DOMAIN C : LET d == C[text] IN
        /\ record' = text
        /\ d.opCode = LoadOp
        /\ ~isLocalHit(systemNodes, d)
        /\ LET nodes == evicted(systemNodes, d)
           IN  /\ ~isSiblingHit(nodes, d)
               /\ homeInMachine(d)
               /\ isUncachedOrShared(nodes, d)
               /\ Retire(d, loadHomeFetch(nodes, d.nodeIndex, d.cpuIndex,
                                          d.memoryAddress, d.reg),
                         HomeFetchCost, "LoadHomeFetch")

LoadDirtyMigration(C) ==
    /\ Fetching
    /\ \E text \in DOMAIN C : LET d == C[text] IN
        /\ record' = text
        /\ d.opCode = LoadOp
        /\ ~isLocalHit(systemNodes, d)
        /\ LET nodes == evicted(systemNodes, d)
           IN  /\ ~isSiblingHit(nodes, d)
               /\ homeInMachine(d)
               /\ ~isUncachedOrShared(nodes, d)
               /\ \E word \in dirtyWords(nodes, d.memoryAddress) :
                    Retire(d, loadDirtyMigration(nodes, d.nodeIndex, d.cpuIndex,
                                                 d.memoryAddress, d.reg, word),
                           DirtyMigrationCost, "LoadDirtyMigration")

\* case 4 with no presence bit set: systemNodes[-1] is dereferenced; besides
\* delivering arbitrary bits the access may end the process
LoadFault(C) ==
    /\ Fetching
    /\ \E text \in DOMAIN C : LET d == C[text] IN
        /\ record' = text
        /\ d.opCode = LoadOp
        /\ ~isLocalHit(systemNodes, d)
        /\ LET nodes == evicted(systemNodes, d)
           IN  /\ ~isSiblingHit(nodes, d)
               /\ homeInMachine(d)
               /\ ~isUncachedOrShared(nodes, d)
               /\ dirtyNodeOf(nodes, d.memoryAddress) < 0
               /\ systemNodes' = nodes
               /\ clockCount' = clockCount + DirtyMigrationCost
               /\ instr' = d
               /\ access' = "LoadFault"
               /\ lastStored' = lastStored
        /\ UNCHANGED boothVars
               /\ UNCHANGED boothVars
               /\ fetched' = fetched + 1
               /\ pc' = "crashed"

StoreWriteHit(C) ==
    /\ Fetching
    /\ \E text \in DOMAIN C : LET d == C[text] IN
        /\ record' = text
        /\ d.opCode = StoreOp
        /\ homeInMachine(d)
        /\ isLocalHit(systemNodes, d)
        /\ Retire(d, storeWriteHit(systemNodes, d.nodeIndex, d.cpuIndex,
                                   d.memoryAddress, d.reg),
                  WriteHitCost, "StoreWriteHit")

StoreWriteMiss(C) ==
    /\ Fetching
    /\ \E text \in DOMAIN C : LET d == C[text] IN
        /\ record' = text
        /\ d.opCode = StoreOp
        /\ homeInMachine(d)
        /\ ~isLocalHit(systemNodes, d)
        /\ Retire(d, storeWriteMiss(systemNodes, d.nodeIndex, d.cpuIndex,
                                    d.memoryAddress, d.reg),
                  WriteMissCost, "StoreWriteMiss")

\* a word address of 64 or more: a load that hits in neither cache of its
\* node, and every store, goes on to systemNodes[homeNode] with homeNode
\* above 3, a pointer read from beyond the array; the access may end the
\* process (a store has counted its clocks by then, a load has not)
RangeFault(C) ==
    /\ Fetching
    /\ \E text \in DOMAIN C : LET d == C[text] IN
        /\ record' = text
        /\ ~homeInMachine(d)
        /\ \/ d.opCode = StoreOp
           \/ /\ d.opCode = LoadOp
              /\ ~isLocalHit(systemNodes, d)
              /\ ~isSiblingHit(systemNodes, d)
        /\ systemNodes' = (IF d.opCode = LoadOp THEN evicted(systemNodes, d)
                           ELSE systemNodes)
        /\ clockCount' = clockCount +
                (IF d.opCode = LoadOp THEN 0
                 ELSE IF isLocalHit(systemNodes, d) THEN WriteHitCost
                 ELSE WriteMissCost)
        /\ lastStored' = lastStored
        /\ UNCHANGED boothVars
        /\ instr' = d
        /\ access' = "RangeFault"
        /\ fetched' = fetched + 1
        /\ pc' = "crashed"

\* an opcode of neither kind, as a stream may hold
OtherOp == "000000"

\* records with that opcode, each with its call
OtherCalls ==
    callsOf({recordLine(0, 0, <<"0", "0", "0", "0", "0", "0">>, rs, rt, byteOffset) :
                rs \in RsValues, rt \in LoadRtValues, byteOffset \in OffsetValues})

\* records with that opcode from every node and processor, with rs, rt and
\* byte offsets of all sizes, among them offsets that are no multiple of 4
WideFields == {<<31, 18, 7>>, <<0, 17, 65535>>, <<21, 0, 6>>}

WideCalls ==
    callsOf({recordLine(i, c, <<"0", "0", "0", "0", "0", "0">>, f[1], f[2], f[3]) :
                i \in NodeIds, c \in CpuIds, f \in WideFields})

\* Ignore with one clock charged, as for a hit
IgnoreCharged(C) ==
    /\ Fetching
    /\ \E text \in DOMAIN C : LET d == C[text] IN
        /\ record' = text
        /\ d.opCode # LoadOp
        /\ d.opCode # StoreOp
        /\ Retire(d, systemNodes, LocalHitCost, "Ignored")

\* memoryAccess with an opcode that passes neither of its two tests
Ignore(C) ==
    /\ Fetching
    /\ \E text \in DOMAIN C : LET d == C[text] IN
        /\ record' = text
        /\ d.opCode # LoadOp
        /\ d.opCode # StoreOp
        /\ Retire(d, systemNodes, 0, "Ignored")

\* the stream is exhausted: the loop of main ends and the state is printed
Finish ==
    /\ pc = "fetch"
    /\ fetched = MaxInstr
    /\ pc' = "done"
    /\ UNCHANGED <<systemNodes, clockCount, fetched, record, instr, access, lastStored>>
    /\ UNCHANGED boothVars

Next ==
    \/ LoadLocalHit(Calls)
    \/ LoadSiblingHit(Calls)
    \/ LoadHomeFetch(Calls)
    \/ LoadDirtyMigration(Calls)
    \/ LoadFault(Calls)
    \/ StoreWriteHit(Calls)
    \/ StoreWriteMiss(Calls)
    \/ Finish

NextScenario ==
    \/ LoadLocalHit(CallsScenario)
    \/ LoadSiblingHit(CallsScenario)
    \/ LoadHomeFetch(CallsScenario)
    \/ LoadDirtyMigration(CallsScenario)
    \/ LoadFault(CallsScenario)
    \/ StoreWriteHit(CallsScenario)
    \/ StoreWriteMiss(CallsScenario)
    \/ Finish

NextDriver ==
    \/ Next
    \/ Ignore(OtherCalls)

NextBeyond ==
    \/ LoadLocalHit(CallsBeyond)
    \/ LoadSiblingHit(CallsBeyond)
    \/ LoadHomeFetch(CallsBeyond)
    \/ LoadDirtyMigration(CallsBeyond)
    \/ LoadFault(CallsBeyond)
    \/ StoreWriteHit(CallsBeyond)
    \/ StoreWriteMiss(CallsBeyond)
    \/ RangeFault(CallsBeyond)
    \/ Finish

NextDecode ==
    \/ Next
    \/ Ignore(WideCalls)

\* streams over addresses 9 and 13, any content of the uninitialised storage
Spec == Init /\ [][Next]_vars

\* the same streams, run on zeroed storage
SpecZero == InitZero /\ [][Next]_vars

\* streams that also hold records of another opcode; main calls fetch again
\* for as long as the process runs and the stream has not ended
SpecDriver == Init /\ [][NextDriver]_vars /\ WF_vars(NextDriver)

\* streams on zeroed storage that also hold records of another opcode with
\* fields of every size, which reach execute and change nothing
SpecDecode == InitZero /\ [][NextDecode]_vars

\* streams on zeroed storage over the word addresses 9, 13 and 73
SpecBeyond == InitZero /\ [][NextBeyond]_vars

\* streams over addresses 1 and 5, any content of the uninitialised storage
SpecScenario == Init /\ [][NextScenario]_vars

(* ----------------------- vocabulary of the properties ------------------ *)

Addresses == 0..(NumNodes * NumWords - 1)

\* the directory entry of word A, at its home node
entryOf(nodes, A) == nodes[A \div 16].directory[A % 16]

\* home memory word A
memoryOf(nodes, A) == nodes[A \div 16].memory[A % 16]

\* directory states: bits [0,1] = 00 uncached, 01 shared, 11 dirty
Uncached(entry) == ~entry[0] /\ ~entry[1]
Shared(entry) == ~entry[0] /\ entry[1]
Dirty(entry) == entry[0] /\ entry[1]

\* bits [2..5]: the nodes recorded as caching the word
presenceSet(nodes, A) == {i \in NodeIds : entryOf(nodes, A)[2 + i]}

bit(b) == IF b THEN 1 ELSE 0

\* the tag field of a line read as a 4-bit unsigned number
tagValue(line) ==
    8 * bit(line[1]) + 4 * bit(line[2]) + 2 * bit(line[3]) + bit(line[4])

\* the line is a valid copy of word A (for the slot at index A % 4)
holdsWord(line, A) == line[0] /\ tagValue(line) = A \div 4

\* the slot of word A in the cache of (node i, cpu c)
slotOf(nodes, i, c, A) == nodes[i].caches[c][A % 4]

\* the nodes with a valid line for word A in at least one of their caches
cachingNodes(nodes, A) ==
    {i \in NodeIds : \E c \in CpuIds : holdsWord(slotOf(nodes, i, c, A), A)}

\* the step retires one instruction, which is a load / a store
LoadStep == fetched' = fetched + 1 /\ instr'.opCode = LoadOp
StoreStep == fetched' = fetched + 1 /\ instr'.opCode = StoreOp

\* the load being retired misses in the requester's cache and in its sibling's
MissesInNode(nodes, d) ==
    /\ ~holdsWord(slotOf(nodes, d.nodeIndex, d.cpuIndex, d.memoryAddress),
                  d.memoryAddress)
    /\ ~holdsWord(slotOf(nodes, d.nodeIndex, 1 - d.cpuIndex, d.memoryAddress),
                  d.memoryAddress)

(* ------------------------------- C1 .. C7 ------------------------------ *)

\* C1: for every memory word A (0..63) the presence set of A's directory
\* entry equals exactly the set of nodes holding, in at least one of their
\* two caches, a valid line at index A%4 with tag A/4.
C1_PresenceIsHolders ==
    \A A \in Addresses :
        presenceSet(systemNodes, A) = cachingNodes(systemNodes, A)

\* C2: for every word A whose directory state is Dirty the presence set has
\* exactly one member, and that node holds a valid line for A.
C2_DirtyHasOneOwner ==
    \A A \in Addresses :
        Dirty(entryOf(systemNodes, A)) =>
            /\ Cardinality(presenceSet(systemNodes, A)) = 1
            /\ presenceSet(systemNodes, A) \subseteq cachingNodes(systemNodes, A)

\* C3: for every word A that is Shared with a non-empty presence set, every
\* valid line for A in a node of the presence set holds the data of home
\* memory word A.
C3_SharedCopiesEqualMemory ==
    \A A \in Addresses :
        (Shared(entryOf(systemNodes, A)) /\ presenceSet(systemNodes, A) # {}) =>
            \A i \in presenceSet(systemNodes, A) : \A c \in CpuIds :
                holdsWord(slotOf(systemNodes, i, c, A), A) =>
                    lineData(slotOf(systemNodes, i, c, A)) = memoryOf(systemNodes, A)

\* C4: for every word the presence set is empty if and only if the directory
\* state is Uncached.
C4_EmptyIffUncached ==
    \A A \in Addresses :
        (presenceSet(systemNodes, A) = {}) <=> Uncached(entryOf(systemNodes, A))

\* C5: right after a store to A (hit or miss) no node other than the
\* writer's holds a valid line at index A%4 tagged A/4.
C5_StoreLeavesNoOtherCopy ==
    access \in {"StoreWriteHit", "StoreWriteMiss"} =>
        cachingNodes(systemNodes, instr.memoryAddress) \subseteq {instr.nodeIndex}

\* C6: when a load by (n, c) replaces, in its own slot, a valid line for a
\* word A whose directory state is Dirty, home memory word A holds the
\* evicted line's data afterwards; and a load of A made while A is Dirty and
\* no cache holds a line for it (it was evicted) delivers home memory word A.
C6_EvictionReachesMemory ==
    [][LoadStep =>
        LET d == instr'
            old == slotOf(systemNodes, d.nodeIndex, d.cpuIndex, d.memoryAddress)
        IN  /\ \A A \in Addresses :
                (/\ A % 4 = d.memoryAddress % 4
                 /\ A # d.memoryAddress
                 /\ holdsWord(old, A)
                 /\ Dirty(entryOf(systemNodes, A))
                 /\ pc' = "fetch")
                => memoryOf(systemNodes', A) = lineData(old)
            /\ (/\ Dirty(entryOf(systemNodes, d.memoryAddress))
                /\ cachingNodes(systemNodes, d.memoryAddress) = {}
                /\ pc' = "fetch")
                => systemNodes'[d.nodeIndex].registers[d.cpuIndex][d.reg]
                       = memoryOf(systemNodes, d.memoryAddress)
    ]_vars

\* C7: after a load of A that takes the dirty-migration case (state Dirty,
\* no hit in the requester's node) the entry of A is Shared with presence
\* set exactly {requesting node}, and home memory word A equals the data of
\* the former owner's line.
C7_MigrationResetsPresence ==
    [][(/\ LoadStep
        /\ pc' = "fetch"
        /\ MissesInNode(systemNodes, instr')
        /\ Dirty(entryOf(systemNodes, instr'.memoryAddress)))
       =>
        LET d == instr'
            A == d.memoryAddress
            owners == {lineData(slotOf(systemNodes, i, c, A)) :
                        <<i, c>> \in {o \in presenceSet(systemNodes, A) \X CpuIds :
                                        holdsWord(slotOf(systemNodes, o[1], o[2], A), A)}}
        IN  /\ Shared(entryOf(systemNodes', A))
            /\ presenceSet(systemNodes', A) = {d.nodeIndex}
            /\ owners # {} => memoryOf(systemNodes', A) \in owners
    ]_vars

(* ------------------------------- C8 .. C10 ----------------------------- *)

\* every directory entry of the machine is Uncached with an empty presence set
AllUncached(nodes) ==
    \A A \in Addresses :
        Uncached(entryOf(nodes, A)) /\ presenceSet(nodes, A) = {}

\* the number 10 as a 32-bit word, most significant bit first: 8 + 2
WordTen == [i \in WordIdx |-> i \in {28, 30}]

\* C8: when a load of A by (n, c) misses in both caches of node n and the
\* directory state of A is Uncached or Shared, afterwards the target register
\* and the requester's line (valid, tag A/4, index A%4) hold home memory word
\* A, the state is Shared, n is in the presence set and the clock grew by
\* 100; a cold load of address 5 by node 0 cpu 0 yields register value 10 and
\* presence set {0}.
C8_HomeCleanFetch ==
    [][LoadStep =>
        LET d == instr'
            A == d.memoryAddress
            word == memoryOf(systemNodes, A)
            line == slotOf(systemNodes', d.nodeIndex, d.cpuIndex, A)
        IN  /\ (/\ MissesInNode(systemNodes, d)
                /\ (Uncached(entryOf(systemNodes, A)) \/ Shared(entryOf(systemNodes, A))))
               =>
                /\ systemNodes'[d.nodeIndex].registers[d.cpuIndex][d.reg] = word
                /\ holdsWord(line, A)
                /\ lineData(line) = word
                /\ memoryOf(systemNodes', A) = word
                /\ Shared(entryOf(systemNodes', A))
                /\ d.nodeIndex \in presenceSet(systemNodes', A)
                /\ clockCount' = clockCount + 100
            /\ (/\ fetched = 0
                /\ AllUncached(systemNodes)
                /\ ~systemNodes[0].caches[0][1][0]
                /\ ~systemNodes[0].caches[1][1][0]
                /\ A = 5 /\ d.nodeIndex = 0 /\ d.cpuIndex = 0)
               =>
                /\ systemNodes'[0].registers[0][d.reg] = WordTen
                /\ presenceSet(systemNodes', 5) = {0}
                /\ Shared(entryOf(systemNodes', 5))
                /\ clockCount' = 100
    ]_vars

\* C8 witness: the cold load of address 5 by node 0 cpu 0 has been retired
C8_Witness ==
    /\ fetched = 1
    /\ access = "LoadHomeFetch"
    /\ instr.memoryAddress = 5 /\ instr.nodeIndex = 0 /\ instr.cpuIndex = 0
    /\ systemNodes[0].registers[0][instr.reg] = WordTen
    /\ presenceSet(systemNodes, 5) = {0}
    /\ clockCount = 100

\* C9: when a load misses in the requester's own cache and the other
\* processor of the node holds a valid matching line, the target register
\* receives that line's 32 data bits, the clock grows by 30 and no directory
\* entry changes (state bits and presence bits of every node).
C9_SiblingHit ==
    [][LoadStep =>
        LET d == instr'
            A == d.memoryAddress
            sister == slotOf(systemNodes, d.nodeIndex, 1 - d.cpuIndex, A)
        IN  (/\ ~holdsWord(slotOf(systemNodes, d.nodeIndex, d.cpuIndex, A), A)
             /\ holdsWord(sister, A))
            =>
             /\ systemNodes'[d.nodeIndex].registers[d.cpuIndex][d.reg] =
                    [i \in WordIdx |-> sister[5 + i]]
             /\ clockCount' = clockCount + 30
             /\ \A i \in NodeIds : systemNodes'[i].directory = systemNodes[i].directory
    ]_vars

\* C9 witness: node 0 cpu 1 was served from cpu 0's line right after cpu 0's
\* home fetch, and holds the fetched word (not a word of zeros) in $s1
C9_Witness ==
    /\ fetched = 2
    /\ access = "LoadSiblingHit"
    /\ instr.nodeIndex = 0 /\ instr.cpuIndex = 1
    /\ clockCount = 130
    /\ systemNodes[0].registers[1][0] = lineData(slotOf(systemNodes, 0, 0, instr.memoryAddress))
    /\ \E i \in WordIdx : systemNodes[0].registers[1][0][i]

\* the cost the classification of section 4.2 / 4.3 gives an access, from the
\* nodes before it
classifiedCost(nodes, d) ==
    LET A == d.memoryAddress
        own == holdsWord(slotOf(nodes, d.nodeIndex, d.cpuIndex, A), A)
        sibling == holdsWord(slotOf(nodes, d.nodeIndex, 1 - d.cpuIndex, A), A)
        clean == Uncached(entryOf(nodes, A)) \/ Shared(entryOf(nodes, A))
    IN  IF d.opCode = LoadOp
        THEN IF own THEN 1 ELSE IF sibling THEN 30 ELSE IF clean THEN 100 ELSE 135
        ELSE IF own THEN 1 ELSE 100

\* C10: the clock starts at 0, never decreases, and every retired access adds
\* exactly its classified cost (loads 1 / 30 / 100 / 135, stores 1 / 100);
\* no other step changes it.
C10_ClockAccounting ==
    /\ (fetched = 0 => clockCount = 0)
    /\ [][/\ clockCount' >= clockCount
          /\ (fetched' = fetched + 1 =>
                clockCount' = clockCount + classifiedCost(systemNodes, instr'))
          /\ (fetched' = fetched => clockCount' = clockCount)
       ]_vars

\* C10 witness: a home fetch, a write hit and a dirty migration were charged
\* 100 + 1 + 135
C10_Witness ==
    /\ fetched = 3
    /\ access = "LoadDirtyMigration"
    /\ clockCount = 236

(* ------------------------------ C11 .. C20 ----------------------------- *)

\* C11: for every finite instruction stream the driver executes each
\* instruction exactly once and in stream order, one instruction being
\* complete before the next is fetched, and then eventually reaches the
\* terminal Done state.
C11_DriverReachesDone ==
    /\ [][/\ fetched' \in {fetched, fetched + 1}
          /\ (pc' = "done" => fetched = MaxInstr /\ fetched' = MaxInstr)]_vars
    /\ <>(pc = "done")

\* C12: an instruction whose opcode is neither load nor store changes no
\* register, cache line, memory word or directory entry, adds nothing to the
\* clock, and the driver goes on to fetch the next instruction.
C12_UnknownOpcodeIgnored ==
    [][(fetched' = fetched + 1 /\ instr'.opCode \notin {LoadOp, StoreOp})
        => /\ systemNodes' = systemNodes
           /\ clockCount' = clockCount
           /\ pc' = "fetch"
    ]_vars

\* C12 witness: a record of another opcode was retired after a home fetch
C12_Witness ==
    /\ access = "Ignored"
    /\ instr.opCode = OtherOp
    /\ fetched = 2
    /\ clockCount = 100
    /\ pc = "fetch"

\* C13: after initialization and before the first instruction every register
\* bit is 0, every cache line is invalid with zero tag and data, every
\* directory entry is Uncached with empty presence, the clock is 0 and memory
\* word A holds A + 5 for every A in 0..63.
C13_InitialState ==
    (fetched = 0 /\ pc = "fetch") =>
        /\ \A i \in NodeIds, c \in CpuIds, r \in 0..(NumRegs - 1), b \in WordIdx :
                ~systemNodes[i].registers[c][r][b]
        /\ \A i \in NodeIds, c \in CpuIds, k \in 0..(NumLines - 1), b \in LineIdx :
                ~systemNodes[i].caches[c][k][b]
        /\ \A A \in Addresses :
                /\ Uncached(entryOf(systemNodes, A))
                /\ presenceSet(systemNodes, A) = {}
                /\ memoryOf(systemNodes, A) = decimalTo32BitBinary(A + 5)
        /\ clockCount = 0

\* C14: when a load finds the requester's own line at index A%4 valid with
\* tag A/4, the target register afterwards equals that line's 32-bit data
\* word bit for bit, and the clock grew by 1.
C14_LocalHitDeliversData ==
    [][LoadStep =>
        LET d == instr'
            own == slotOf(systemNodes, d.nodeIndex, d.cpuIndex, d.memoryAddress)
        IN  holdsWord(own, d.memoryAddress) =>
                /\ systemNodes'[d.nodeIndex].registers[d.cpuIndex][d.reg] =
                        [i \in WordIdx |-> own[5 + i]]
                /\ clockCount' = clockCount + 1
    ]_vars

\* C15: after a sibling-hit load of A, whatever the requester's slot held
\* before, the requester's own line at index A%4 is valid, its tag equals A/4
\* and its data equals the sibling line's data, so that the same load
\* repeated at once would be a local hit.
C15_SiblingHitInstallsLine ==
    [][LoadStep =>
        LET d == instr'
            A == d.memoryAddress
            sister == slotOf(systemNodes, d.nodeIndex, 1 - d.cpuIndex, A)
            mine == slotOf(systemNodes', d.nodeIndex, d.cpuIndex, A)
        IN  (/\ ~holdsWord(slotOf(systemNodes, d.nodeIndex, d.cpuIndex, A), A)
             /\ holdsWord(sister, A))
            =>
             /\ mine[0]
             /\ tagValue(mine) = A \div 4
             /\ lineData(mine) = lineData(sister)
             /\ isLocalHit(systemNodes', d)
    ]_vars

\* a load step that takes the dirty-migration case: no hit in the node of
\* the requester and the directory state of the word is Dirty
MigrationStep ==
    /\ LoadStep
    /\ MissesInNode(systemNodes, instr')
    /\ Dirty(entryOf(systemNodes, instr'.memoryAddress))

\* the lines of nodes in the presence set of A that are valid and tagged for A
ownerLines(nodes, A) ==
    {slotOf(nodes, i, k, A) : i \in presenceSet(nodes, A), k \in CpuIds}
        \cap {line \in {slotOf(nodes, i, k, A) : i \in NodeIds, k \in CpuIds} :
                holdsWord(line, A)}

\* C16: when a load of A by (n, c) takes the dirty-migration case, the former
\* owner's line data is copied into the target register and into the
\* requester's own line: afterwards the line of node n, cpu c at index A%4
\* is valid with tag A/4 and holds that data, whichever the requesting, home
\* and owner nodes are.
C16_MigrationFillsRequester ==
    [][MigrationStep =>
        LET d == instr'
            A == d.memoryAddress
            mine == slotOf(systemNodes', d.nodeIndex, d.cpuIndex, A)
            word == systemNodes'[d.nodeIndex].registers[d.cpuIndex][d.reg]
        IN  /\ \E line \in ownerLines(systemNodes, A) : lineData(line) = word
            /\ holdsWord(mine, A)
            /\ lineData(mine) = word
    ]_vars

\* C17: whenever a load reaches the dirty-migration case the owner lookup
\* succeeds: the presence set of the word holds a node, the node chosen as
\* dirty owner has a valid line with the matching tag in one of its two
\* caches, and the data delivered is read from that line.
C17_OwnerLookupSucceeds ==
    [][MigrationStep =>
        LET d == instr'
            A == d.memoryAddress
            dirtyNode == dirtyNodeOf(systemNodes, A)
        IN  /\ presenceSet(systemNodes, A) # {}
            /\ dirtyNode \in NodeIds
            /\ \E k \in CpuIds :
                /\ holdsWord(slotOf(systemNodes, dirtyNode, k, A), A)
                /\ pc' = "fetch"
                /\ systemNodes'[d.nodeIndex].registers[d.cpuIndex][d.reg] =
                        lineData(slotOf(systemNodes, dirtyNode, k, A))
    ]_vars

\* C18: after a store write hit to A by (n, c) the directory entry of A is
\* Dirty with presence set exactly {n}, the writer's line at index A%4 is
\* valid with tag A/4 and data equal to the source register, and the clock
\* grew by 1.
C18_WriteHitOwnsWord ==
    [][StoreStep =>
        LET d == instr'
            A == d.memoryAddress
            mine == slotOf(systemNodes', d.nodeIndex, d.cpuIndex, A)
        IN  holdsWord(slotOf(systemNodes, d.nodeIndex, d.cpuIndex, A), A) =>
                /\ Dirty(entryOf(systemNodes', A))
                /\ presenceSet(systemNodes', A) = {d.nodeIndex}
                /\ holdsWord(mine, A)
                /\ lineData(mine) = systemNodes[d.nodeIndex].registers[d.cpuIndex][d.reg]
                /\ clockCount' = clockCount + 1
    ]_vars

\* C19: after a store write miss to A home memory word A equals the source
\* register, the directory state of A is Shared if it was Dirty and otherwise
\* unchanged, the writer's node is not added to the presence set, and no line
\* is installed in the writer's cache: tag and data at index A%4 are unchanged
\* and the slot is not a valid line for A.
C19_WriteMissNoAllocate ==
    [][StoreStep =>
        LET d == instr'
            A == d.memoryAddress
            before == slotOf(systemNodes, d.nodeIndex, d.cpuIndex, A)
            after == slotOf(systemNodes', d.nodeIndex, d.cpuIndex, A)
            was == entryOf(systemNodes, A)
            is == entryOf(systemNodes', A)
        IN  ~holdsWord(before, A) =>
                /\ memoryOf(systemNodes', A) =
                        systemNodes[d.nodeIndex].registers[d.cpuIndex][d.reg]
                /\ (Dirty(was) => Shared(is))
                /\ (~Dirty(was) => is[0] = was[0] /\ is[1] = was[1])
                /\ presenceSet(systemNodes', A) = presenceSet(systemNodes, A)
                /\ \A b \in 1..(LineBits - 1) : after[b] = before[b]
                /\ ~holdsWord(after, A)
    ]_vars

\* C19 witness: a write miss by a node outside the presence set of a Shared
\* word has written a register that differs from the word's initial value
C19_Witness ==
    /\ access = "StoreWriteMiss"
    /\ fetched = 3
    /\ clockCount = 201
    /\ Shared(entryOf(systemNodes, instr.memoryAddress))
    /\ instr.nodeIndex \notin presenceSet(systemNodes, instr.memoryAddress)
    /\ memoryOf(systemNodes, instr.memoryAddress) =
            systemNodes[instr.nodeIndex].registers[instr.cpuIndex][instr.reg]
    /\ memoryOf(systemNodes, instr.memoryAddress) #
            decimalTo32BitBinary(instr.memoryAddress + 5)

\* what a write-back of the slot (i, c, k) is to leave behind: the line's
\* data in home memory word t*4+k when the line is valid and that word is
\* Dirty, and nothing changed otherwise
writtenBack(nodes, i, c, k) ==
    LET line == nodes[i].caches[c][k]
        A == tagValue(line) * 4 + k
    IN  IF line[0] /\ Dirty(entryOf(nodes, A))
        THEN [nodes EXCEPT ![A \div 16].memory[A % 16] = lineData(line)]
        ELSE nodes

\* C20: for every valid cache line with tag t at index k the write-back
\* helper reconstructs the address t*4+k and writes the line's data to home
\* memory word t*4+k if and only if that word is Dirty; for a Shared or
\* Uncached word and for an invalid line no memory word changes.
C20_WriteBackAddress ==
    \A i \in NodeIds, c \in CpuIds, k \in 0..(NumLines - 1) :
        LET line == systemNodes[i].caches[c][k]
        IN  /\ line[0] => writeBackAddress(line, k) = tagValue(line) * 4 + k
            /\ writeBack(systemNodes, i, c, k) = writtenBack(systemNodes, i, c, k)

(* ------------------------------ C21 .. C30 ----------------------------- *)

\* C21: no load silently loses modified data: whenever a load overwrites a
\* cache slot, in any node, that held a valid line for another word B whose
\* directory state is Dirty, home memory word B equals that line's data once
\* the load is complete.
C21_NoLostData ==
    [][LoadStep =>
        LET A == instr'.memoryAddress
            k == A % 4
        IN  \A i \in NodeIds, c \in CpuIds :
                LET old == slotOf(systemNodes, i, c, A)
                    B == tagValue(old) * 4 + k
                IN  (/\ old[0]
                     /\ B # A
                     /\ slotOf(systemNodes', i, c, A) # old
                     /\ Dirty(entryOf(systemNodes, B)))
                    => memoryOf(systemNodes', B) = lineData(old)
    ]_vars

\* C22: in no reachable state is there a valid cache line, in any node,
\* processor and index k, with tag t, whose word t*4+k has directory state
\* Uncached.
C22_NoValidLineOfUncachedWord ==
    \A i \in NodeIds, c \in CpuIds, k \in 0..(NumLines - 1) :
        LET line == systemNodes[i].caches[c][k]
        IN  line[0] => ~Uncached(entryOf(systemNodes, tagValue(line) * 4 + k))

\* C23: after a dirty-migration load of A by a node other than the former
\* dirty owner, the former owner's line for A is not invalidated: it is still
\* valid, with the same tag and the same data as before the load.
C23_OwnerKeepsLine ==
    [][(MigrationStep /\ pc' = "fetch") =>
        LET d == instr'
            A == d.memoryAddress
        IN  \A i \in NodeIds \ {d.nodeIndex}, c \in CpuIds :
                holdsWord(slotOf(systemNodes, i, c, A), A)
                    => slotOf(systemNodes', i, c, A) = slotOf(systemNodes, i, c, A)
    ]_vars

\* the unsigned number the characters first..last of a line spell, the
\* character at last counting 1
RECURSIVE fieldValue(_, _, _)
fieldValue(text, first, last) ==
    IF last < first THEN 0
    ELSE (IF text[last] = "1" THEN 1 ELSE 0) + 2 * fieldValue(text, first, last - 1)

\* C24: for every instruction record, decode and execute hand the coherence
\* engine the node id of the first two bits, the cpu id of the third bit,
\* the word address rs + floor(byteOffset / 4) and the register selector
\* (rt + 1) mod 2: register 0 for an odd rt, register 1 for an even rt.
C24_DecodeFields ==
    [][fetched' = fetched + 1 =>
        LET rs == fieldValue(record', 12, 16)
            rt == fieldValue(record', 17, 21)
            byteOffset == fieldValue(record', 22, 37)
        IN  /\ Len(record') = 37
            /\ instr'.nodeIndex = fieldValue(record', 1, 2)
            /\ instr'.cpuIndex = fieldValue(record', 3, 3)
            /\ instr'.memoryAddress = rs + (byteOffset \div 4)
            /\ instr'.reg = (rt + 1) % 2
            /\ instr'.reg = (IF rt % 2 = 1 THEN 0 ELSE 1)
    ]_vars

\* C24 witness: a record of node 3, cpu 1 with rs 31, rt 18 and byte offset 7
\* was decoded to word address 32 and register 1
C24_Witness ==
    /\ record = recordLine(3, 1, <<"0", "0", "0", "0", "0", "0">>, 31, 18, 7)
    /\ instr.nodeIndex = 3
    /\ instr.cpuIndex = 1
    /\ instr.memoryAddress = 32
    /\ instr.reg = 1

\* C25: read coherence: after any sequence of loads and stores, every load
\* of A by any processor places in its target register the value written by
\* the most recent store to A by any processor (the source register's value
\* at that store), or A + 5 if no store to A has occurred.
C25_ReadCoherence ==
    [][(LoadStep /\ pc' = "fetch") =>
        LET d == instr'
            A == d.memoryAddress
        IN  systemNodes'[d.nodeIndex].registers[d.cpuIndex][d.reg] =
                IF A \in DOMAIN lastStored THEN lastStored[A]
                ELSE decimalTo32BitBinary(A + 5)
    ]_vars

\* C26: for every well-formed load or store record (5-bit rs, 16-bit byte
\* offset) the effective address lies in 0..63, so every access indexes a
\* home node in 0..3, a local memory and directory index in 0..15 and a tag
\* in 0..15, and never a node or an array element outside the machine.
C26_AddressInRange ==
    instr.opCode \in {LoadOp, StoreOp} =>
        /\ instr.memoryAddress \in 0..63
        /\ (instr.memoryAddress \div 16) \in 0..3
        /\ (instr.memoryAddress % 16) \in 0..15
        /\ (instr.memoryAddress \div 4) \in 0..15
        /\ pc # "crashed"

C28_LocalHitFrame ==
    [][LoadStep =>
        LET d == instr'
        IN  holdsWord(slotOf(systemNodes, d.nodeIndex, d.cpuIndex, d.memoryAddress),
                      d.memoryAddress)
            =>
             /\ systemNodes' =
                    [systemNodes EXCEPT ![d.nodeIndex].registers[d.cpuIndex][d.reg] =
                        systemNodes'[d.nodeIndex].registers[d.cpuIndex][d.reg]]
             /\ clockCount' = clockCount + 1
    ]_vars

\* C28 witness: a local hit on a line whose word is Dirty and whose data
\* differ from home memory, which a write-back would have changed
C28_Witness ==
    /\ access = "LoadLocalHit"
    /\ Dirty(entryOf(systemNodes, instr.memoryAddress))
    /\ instr.memoryAddress = 13
    /\ lineData(slotOf(systemNodes, instr.nodeIndex, instr.cpuIndex, 13))
            # memoryOf(systemNodes, 13)

(***************************************************************************)
(* src/Booths_16bit.cpp: Booth's algorithm on two 16-bit numbers, built    *)
(* from one-bit ALUs.  A number is an array of bools with the lowest order *)
(* bit at index 0.                                                         *)
(***************************************************************************)

OperandBits == 16

CounterBits == 4

\* the loop of booths() is meant to run 16 times; a build in which the cycle
\* counter is read from a dead stack frame can run it longer, and the model
\* follows it up to this many iterations
MaxIterations == 17

\* [sum, carryOut]
OneBitFullAdder(a, b, carryIn) ==
    LET sum == (a # b) # carryIn
        carryOut == (a /\ b) \/ ((a # b) /\ carryIn)
    IN  (0 :> sum) @@ (1 :> carryOut)

\* static bool op[2] = { true,false }: the ADD selection of the multiplexer
AddOp == (0 :> TRUE) @@ (1 :> FALSE)

\* [result, carryOut]; the selection 11 leaves result[0] as the previous call
\* left it, and no call of the program selects it
ALUOneBit(a, b, aInvert, bInvert, carryIn, operation) ==
    LET a1 == IF aInvert THEN ~a ELSE a
        b1 == IF bInvert THEN ~b ELSE b
        op0 == a1 /\ b1
        op1 == a1 \/ b1
        adder == OneBitFullAdder(a1, b1, carryIn)
        op2 == adder[0]
        selected == CASE ~operation[0] /\ ~operation[1] -> op0
                      [] ~operation[0] /\ operation[1]  -> op1
                      [] operation[0] /\ ~operation[1]  -> op2
    IN  (0 :> selected) @@ (1 :> adder[1])

\* [result, carryOut, overFlow]; a and b are the caller's values, before the
\* inversion ALUOneBit applies to its own copies
ALUOneBitWithOF(a, b, aInvert, bInvert, carryIn, operation) ==
    LET tempResults == ALUOneBit(a, b, aInvert, bInvert, carryIn, operation)
    IN  (0 :> tempResults[0]) @@ (1 :> tempResults[1])
            @@ (2 :> (~(a # b) /\ (tempResults[0] # b)))

\* the carry entering the one-bit ALU at position k: bInv at position 0,
\* then the carryOut of the ALU below
RECURSIVE carryInto(_, _, _, _, _, _)
carryInto(a, b, aInv, bInv, operation, k) ==
    IF k = 0 THEN bInv
    ELSE ALUOneBit(a[k - 1], b[k - 1], aInv, bInv,
                   carryInto(a, b, aInv, bInv, operation, k - 1), operation)[1]

\* bits 0..15 are the number, bit 16 is the overflow bit
ALU16Bit(a, b, aInv, bInv, operation) ==
    [k \in 0..OperandBits |->
        IF k < 15
        THEN ALUOneBit(a[k], b[k], aInv, bInv,
                       carryInto(a, b, aInv, bInv, operation, k), operation)[0]
        ELSE LET tempResult == ALUOneBitWithOF(a[15], b[15], aInv, bInv,
                                   carryInto(a, b, aInv, bInv, operation, 15),
                                   operation)
             IN  IF k = 15 THEN tempResult[0] ELSE tempResult[2]]

\* the four bits ALU4Bit computes into its local array
ALU4Bit(a, b, aInv, bInv, operation) ==
    [k \in 0..(CounterBits - 1) |->
        ALUOneBit(a[k], b[k], aInv, bInv,
                  carryInto(a, b, aInv, bInv, operation, k), operation)[0]]

\* bool one[4] = { true,false,false,false }
one == [k \in 0..(CounterBits - 1) |-> k = 0]

\* result[i] = (inputString.at(15-i) != '0'); at() counts from 0
stringTo16Bits(inputString) ==
    [k \in 0..(OperandBits - 1) |-> inputString[(15 - k) + 1] # "0"]

\* the 16 characters the user types for a number
bitString(value) ==
    [p \in 1..OperandBits |->
        IF (((value + 65536) % 65536) \div (2 ^ (OperandBits - p))) % 2 = 1
        THEN "1" ELSE "0"]

\* the numbers typed at the two prompts
MDValues == {0, 1, -3, 16383, -16384, 32767}

MQValues == {0, 1, -1, 6, 21845}

\* main: both operands are read, copied into opA and opB, and booths starts:
\* MD and MQ are the caller's arrays, AC is the local array ac
BoothMain ==
    /\ bpc = "idle"
    /\ \E md \in MDValues, mq \in MQValues :
          /\ operands' = <<md, mq>>
          /\ MD' = stringTo16Bits(bitString(md))
          /\ MQ' = stringTo16Bits(bitString(mq))
    /\ AC' = [k \in 0..(OperandBits - 1) |-> FALSE]
    /\ mqv' = FALSE
    /\ cycleCounter' = [k \in 0..(CounterBits - 1) |-> TRUE]
    /\ enteredLoop' = FALSE
    /\ iteration' = 0
    /\ bpc' = "loop"
    /\ UNCHANGED numaVars

\* stringTo16Bits returns the address of its local array; a build that
\* returns a null pointer for it makes main fault on tempArray[i]
BoothMainFault ==
    /\ bpc = "idle"
    /\ bpc' = "crashed"
    /\ UNCHANGED <<MD, MQ, AC, mqv, cycleCounter, enteredLoop, iteration, operands>>
    /\ UNCHANGED numaVars

counterWrapped ==
    enteredLoop /\ cycleCounter[0] /\ cycleCounter[1] /\ cycleCounter[2]
        /\ cycleCounter[3]

\* the loop test passes: i++, enteredLoop = true
BoothEnter ==
    /\ bpc = "loop"
    /\ ~counterWrapped
    /\ iteration < MaxIterations
    /\ iteration' = iteration + 1
    /\ enteredLoop' = TRUE
    /\ bpc' = "step"
    /\ UNCHANGED <<MD, MQ, AC, mqv, cycleCounter, operands>>
    /\ UNCHANGED numaVars

\* AC <- AC + MD; AC now points at the result array of ALU16Bit
BoothAdd ==
    /\ bpc = "step"
    /\ ~MQ[0] /\ mqv
    /\ AC' = ALU16Bit(AC, MD, FALSE, FALSE, AddOp)
    /\ bpc' = "shift"
    /\ UNCHANGED <<MD, MQ, mqv, cycleCounter, enteredLoop, iteration, operands>>
    /\ UNCHANGED numaVars

\* AC <- AC - MD
BoothSub ==
    /\ bpc = "step"
    /\ ~(~MQ[0] /\ mqv)
    /\ MQ[0] /\ ~mqv
    /\ AC' = ALU16Bit(AC, MD, FALSE, TRUE, AddOp)
    /\ bpc' = "shift"
    /\ UNCHANGED <<MD, MQ, mqv, cycleCounter, enteredLoop, iteration, operands>>
    /\ UNCHANGED numaVars

BoothNothing ==
    /\ bpc = "step"
    /\ ~(~MQ[0] /\ mqv)
    /\ ~(MQ[0] /\ ~mqv)
    /\ bpc' = "shift"
    /\ UNCHANGED <<MD, MQ, AC, mqv, cycleCounter, enteredLoop, iteration, operands>>
    /\ UNCHANGED numaVars

\* mqv takes MQ[0], MQ moves down one place and takes AC[0] at the top, and
\* AC[0..13] take AC[1..14]; AC[14] and AC[15] are not written
BoothShift ==
    /\ bpc = "shift"
    /\ mqv' = MQ[0]
    /\ MQ' = [k \in 0..(OperandBits - 1) |-> IF k < 15 THEN MQ[k + 1] ELSE AC[0]]
    /\ AC' = [k \in DOMAIN AC |-> IF k < 14 THEN AC[k + 1] ELSE AC[k]]
    /\ bpc' = "decrement"
    /\ UNCHANGED <<MD, cycleCounter, enteredLoop, iteration, operands>>
    /\ UNCHANGED numaVars

\* temp = ALU4Bit(cycleCounter, one, false, true, op) is the address of a
\* local array of a call that has returned.  In this outcome the four bools
\* are still what ALU4Bit stored there.
BoothDecrement ==
    /\ bpc = "decrement"
    /\ cycleCounter' = ALU4Bit(cycleCounter, one, FALSE, TRUE, AddOp)
    /\ bpc' = "loop"
    /\ UNCHANGED <<MD, MQ, AC, mqv, enteredLoop, iteration, operands>>
    /\ UNCHANGED numaVars

\* In this outcome the dead frame holds something else
BoothDecrementGarbage ==
    /\ bpc = "decrement"
    /\ \E garbage \in [0..(CounterBits - 1) -> BOOLEAN] :
          /\ garbage # ALU4Bit(cycleCounter, one, FALSE, TRUE, AddOp)
          /\ cycleCounter' = garbage
    /\ bpc' = "loop"
    /\ UNCHANGED <<MD, MQ, AC, mqv, enteredLoop, iteration, operands>>
    /\ UNCHANGED numaVars

\* In this outcome the build made ALU4Bit return a null pointer and temp[0]
\* faults
BoothDecrementFault ==
    /\ bpc = "decrement"
    /\ bpc' = "crashed"
    /\ UNCHANGED <<MD, MQ, AC, mqv, cycleCounter, enteredLoop, iteration, operands>>
    /\ UNCHANGED numaVars

\* the loop test fails and the final result is printed
BoothDone ==
    /\ bpc = "loop"
    /\ counterWrapped
    /\ bpc' = "done"
    /\ UNCHANGED <<MD, MQ, AC, mqv, cycleCounter, enteredLoop, iteration, operands>>
    /\ UNCHANGED numaVars

NextBooth ==
    \/ BoothMain
    \/ BoothMainFault
    \/ BoothEnter
    \/ BoothAdd
    \/ BoothSub
    \/ BoothNothing
    \/ BoothShift
    \/ BoothDecrement
    \/ BoothDecrementGarbage
    \/ BoothDecrementFault
    \/ BoothDone

\* the runs in which every array read after its function returned still
\* holds what the function stored
NextBoothIntact ==
    \/ BoothMain
    \/ BoothEnter
    \/ BoothAdd
    \/ BoothSub
    \/ BoothNothing
    \/ BoothShift
    \/ BoothDecrement
    \/ BoothDone

SpecBooth == InitZero /\ [][NextBooth]_vars

SpecBoothIntact == InitZero /\ [][NextBoothIntact]_vars

\* the number a 16-bit array stands for, unsigned and in two's complement
RECURSIVE unsignedUpTo(_, _)
unsignedUpTo(bits, k) ==
    IF k < 0 THEN 0
    ELSE (IF bits[k] THEN 2 ^ k ELSE 0) + unsignedUpTo(bits, k - 1)

unsigned16(bits) == unsignedUpTo(bits, 15)

signed16(bits) == unsignedUpTo(bits, 14) - (IF bits[15] THEN 32768 ELSE 0)

\* C29: when booths() finishes, AC (high half) and MQ (low half) hold the
\* signed product of the two operands it was given, and MD still holds the
\* first operand.
C29_ProductInACMQ ==
    bpc = "done" =>
        /\ signed16(AC) * 65536 + unsigned16(MQ) = operands[1] * operands[2]
        /\ MD = stringTo16Bits(bitString(operands[1]))

\* C30: when the shift is about to run, after the add or subtract of the
\* iteration, AC bit 14 equals AC bit 15.
C30_SignBitsAgreeAtShift ==
    bpc = "shift" => AC[14] = AC[15]

====
